---------------------------- MODULE Spec2Model ----------------------------
(***************************************************************************)
(* A model of handler/handler.go of the installer service: the request     *)
(* handler ServeHTTP, its path and User-Agent regular expressions, the     *)
(* error sanitiser showError, the upstream client Handler.get, and the TTL *)
(* cache that Handler.execute keeps in Handler.cache.                      *)
(*                                                                         *)
(* A Go string is modelled as a sequence of one-character strings, so that *)
(* the regular expressions, the sanitiser and every string concatenation   *)
(* are computed character by character.  Times are in minutes.             *)
(***************************************************************************)
EXTENDS Naturals, Integers, Sequences, FiniteSets, TLC

VARIABLES
    cfg,      \* Handler.Config: User, ForceUser, ForceRepo, Token
    now,      \* the wall clock, in minutes
    cache,    \* Handler.cache: cacheKey -> Result
    pc,       \* the position of ServeHTTP in the request being handled
    req,      \* the request: URL path, type/insecure/as parameters, User-Agent
    parts,    \* how the client composed the path (user, program, tag)
    qtype,    \* ServeHTTP's qtype
    hdr,      \* the Content-Type set on the ResponseWriter's header map
    script,   \* the template picked for qtype
    q,        \* ServeHTTP's Query
    res,      \* what execute returned: result and error
    built,    \* the *http.Request that get builds with NewRequest
    wire,     \* the requests get has put on the wire in the current call
    reply,    \* what the upstream answered to the current call of get
    gerr,     \* the error get returned
    dest,     \* the destination v that get decodes into
    buff,     \* ServeHTTP's bytes.Buffer
    shown,    \* the msg and code last given to showError
    trace,    \* the steps ServeHTTP has taken for the current request
    resp      \* what has been written to the ResponseWriter for this request

vars == <<cfg, now, cache, pc, req, parts, qtype, hdr, script, q, res, built,
          wire, reply, gerr, dest, buff, shown, trace, resp>>

---------------------------------------------------------------------------
(* Characters and strings                                                  *)

UpperSeq ==
        <<"A","B","C","D","E","F","G","H","I","J","K","L","M","N","O","P","Q","R","S",
          "T","U","V","W","X","Y","Z">>
LowerSeq ==
        <<"a","b","c","d","e","f","g","h","i","j","k","l","m","n","o","p","q","r","s",
          "t","u","v","w","x","y","z">>
Digits == {"0", "1", "2", "3", "4", "5", "6", "7", "8", "9"}
Upper == {UpperSeq[i] : i \in DOMAIN UpperSeq}
Lower == {LowerSeq[i] : i \in DOMAIN LowerSeq}

\* \w of Go's regexp syntax
Word == Upper \cup Lower \cup Digits \cup {"_"}

Min(a, b) == IF a <= b THEN a ELSE b

\* simple case folding, as (?i) applies it to the letters of the patterns
Fold(c) ==
    IF \E i \in DOMAIN UpperSeq : UpperSeq[i] = c
    THEN LowerSeq[CHOOSE i \in DOMAIN UpperSeq : UpperSeq[i] = c]
    ELSE c

\* (?i)^lit : s starts with lit, letters compared without case
HasPrefixFold(s, lit) ==
    /\ Len(s) >= Len(lit)
    /\ \A i \in DOMAIN lit : Fold(s[i]) = lit[i]

\* strings.HasSuffix
HasSuffix(s, suffix) ==
    /\ Len(s) >= Len(suffix)
    /\ \A i \in DOMAIN suffix : s[Len(s) - Len(suffix) + i] = suffix[i]

\* the number of consecutive characters of s from index i on that are in class
RECURSIVE RunLen(_, _, _)
RunLen(s, i, class) ==
    IF i <= Len(s) /\ s[i] \in class THEN 1 + RunLen(s, i + 1, class) ELSE 0

---------------------------------------------------------------------------
(* The regular expressions, lines 26-35                                    *)

RepMax == 128

userClass == Word \cup {"-"}
repoClass == Word \cup {"-", "_"}
releaseClass == Word \cup {"-", ".", "_"}

\* What may follow releaseRe for pathRe to match: pathRe ends there, with no
\* end-of-text anchor, so every position is accepted.
pathReTail(p, i) == TRUE

\* pathRe.FindStringSubmatch(p): leftmost-first matching from ^.  The user group
\* is tried first and greedily; the program is greedy; the release group is
\* tried before its absence and its {1,128}? is lazy, so it takes the fewest
\* characters after which the rest of the pattern matches.
pathRe(p) ==
    LET n == Len(p)
        uRun == IF n >= 1 /\ p[1] = "/"
                THEN Min(RunLen(p, 2, userClass), RepMax) ELSE 0
        uLens == {k \in 1..uRun :
                     /\ k + 3 <= n
                     /\ p[k + 2] = "/"
                     /\ p[k + 3] \in repoClass}
        withUser == uLens # {}
        k == IF withUser THEN CHOOSE x \in uLens : \A y \in uLens : y <= x ELSE 0
        noUser == n >= 2 /\ p[1] = "/" /\ p[2] \in repoClass
        rStart == IF withUser THEN k + 3 ELSE 2
        rLen == Min(RunLen(p, rStart, repoClass), RepMax)
        at == rStart + rLen
        relRun == IF at <= n /\ p[at] = "@"
                  THEN Min(RunLen(p, at + 1, releaseClass), RepMax) ELSE 0
        relLens == {j \in 1..relRun : pathReTail(p, at + 1 + j)}
        relLen == IF relLens = {} THEN 0
                  ELSE CHOOSE x \in relLens : \A y \in relLens : x <= y
    IN  IF withUser \/ noUser
        THEN [matched |-> TRUE,
              m2 |-> SubSeq(p, 2, k + 1),
              m3 |-> SubSeq(p, rStart, at - 1),
              m5 |-> SubSeq(p, at + 1, at + relLen)]
        ELSE [matched |-> FALSE, m2 |-> <<>>, m3 |-> <<>>, m5 |-> <<>>]

\* isTermRe without (?i)
isTermReCased(ua) ==
    \/ Len(ua) >= 5 /\ SubSeq(ua, 1, 5) = <<"c","u","r","l","/">>
    \/ Len(ua) >= 5 /\ SubSeq(ua, 1, 5) = <<"w","g","e","t","/">>

\* isTermRe.MatchString
isTermRe(ua) ==
    \/ HasPrefixFold(ua, <<"c","u","r","l","/">>)
    \/ HasPrefixFold(ua, <<"w","g","e","t","/">>)

\* isHomebrewRe.MatchString
isHomebrewRe(ua) == HasPrefixFold(ua, <<"h","o","m","e","b","r","e","w">>)

\* errMsgRe letting the quote and the semicolon through
errMsgKeepQuote == Upper \cup Lower \cup Digits \cup {" ", ":", "/", ".", "'", ";"}

\* the characters errMsgRe does not match
errMsgKeep == Upper \cup Lower \cup Digits \cup {" ", ":", "/", "."}

errMsgKept(c) == c \in errMsgKeep

\* errMsgRe.ReplaceAllString(msg, "")
errMsgClean(msg) == SelectSeq(msg, errMsgKept)

\* errNotFound's text
errNotFound == <<"n","o","t"," ","f","o","u","n","d">>

\* a Go error value: what Error() returns and the sentinel it wraps; NoError is nil
NoError == [isNil |-> TRUE, msg |-> <<>>, wraps |-> "none"]
Err(msg, wraps) == [isNil |-> FALSE, msg |-> msg, wraps |-> wraps]

---------------------------------------------------------------------------
(* Query, Result and Assets, lines 37-57 and 180-210                       *)

ZeroQuery ==
    [User |-> <<>>, Program |-> <<>>, AsProgram |-> <<>>, Release |-> <<>>,
     MoveToPath |-> FALSE, Google |-> FALSE, Insecure |-> FALSE, SudoMove |-> FALSE]

\* Query.cacheKey: the JSON encoding lists the fields in declaration order and the
\* SHA-256 digest of it is taken to be free of collisions, so the key is the
\* tuple of the field values.
cacheKey(query) ==
    <<query.User, query.Program, query.AsProgram, query.Release,
      query.MoveToPath, query.Google, query.Insecure, query.SudoMove>>

IsMac(a) == a.OS = "darwin"
IsMacM1(a) == IsMac(a) /\ a.Arch = "arm64"
HasM1(as) == \E i \in DOMAIN as : IsMacM1(as[i])

ZeroResult ==
    [Query |-> ZeroQuery, Timestamp |-> 0, Assets |-> <<>>, M1Asset |-> FALSE]

NoResult == [err |-> NoError, result |-> ZeroResult, from |-> "none"]

---------------------------------------------------------------------------
(* ServeHTTP, lines 66-178                                                 *)

\* a TTL one minute longer
cacheTTLLong == 60 + 1

cacheTTL == 60

StatusOK == 200
StatusMovedPermanently == 301
StatusBadRequest == 400
StatusInternalServerError == 500
StatusBadGateway == 502

healthz == <<"/","h","e","a","l","t","h","z">>
micro == <<"m","i","c","r","o">>
zyedidia == <<"z","y","e","d","i","d","i","a">>
homepage ==
    <<"h","t","t","p","s",":","/","/","g","i","t","h","u","b",".","c","o","m","/","j",
      "p","i","l","l","o","r","a","/","i","n","s","t","a","l","l","e","r">>
UnknownType == <<"U","n","k","n","o","w","n"," ","t","y","p","e">>
InvalidPath == <<"I","n","v","a","l","i","d"," ","p","a","t","h">>

NoShown == [msg |-> <<>>, code |-> 0]
NoRequest == [url |-> <<>>, header |-> <<>>]
NoReply ==
    [kind |-> "none", status |-> 0, body |-> <<>>, json |-> FALSE, assets |-> <<>>,
     errtext |-> <<>>]

\* one write to the ResponseWriter: the status line, the Content-Type sent with
\* it, the text of an error (or the Location of a redirect) and the bytes of a
\* rendered script
Response(kind, status, ctype, text, body) ==
    [kind |-> kind, status |-> status, ctype |-> ctype, text |-> text, body |-> body]

\* the closure showError of lines 88-95, with the qtype it captures.  http.Error
\* replaces the Content-Type and writes the text it is given, followed by a newline.
showError(qt, msg, code) ==
    LET cleaned == errMsgClean(msg)
        text == IF qt = "script"
                THEN <<"e","c","h","o"," ","'">> \o cleaned \o <<"'">>
                ELSE cleaned
    IN  Response("error", StatusInternalServerError, "text/plain; charset=utf-8",
                 text, <<>>)

\* lines 75-86
ResponseType(r) ==
    IF r.type # "" THEN r.type
    ELSE IF isTermRe(r.ua) THEN "script"
    ELSE IF isHomebrewRe(r.ua) THEN "ruby"
    ELSE "text"

\* the Content-Type of the switch of lines 96-112; "" is its default case
ContentType(qt) ==
    CASE qt = "script" -> "text/x-shellscript"
      [] qt \in {"homebrew", "ruby"} -> "text/ruby"
      [] qt = "text" -> "text/plain"
      [] OTHER -> ""

\* the template of the switch of lines 96-112
Template(qt) ==
    CASE qt = "script" -> "scripts.Shell"
      [] qt \in {"homebrew", "ruby"} -> "scripts.Homebrew"
      [] qt = "text" -> "scripts.Text"
      [] OTHER -> ""

\* lines 113-128: the Query from the route
RouteQuery(r) ==
    LET m == pathRe(r.path)
    IN  [User |-> IF m.matched THEN m.m2 ELSE <<>>,
         Program |-> IF m.matched THEN m.m3 ELSE <<>>,
         AsProgram |-> r.as,
         Release |-> IF m.matched THEN m.m5 ELSE <<>>,
         MoveToPath |-> HasSuffix(r.path, <<"!">>),
         Google |-> FALSE,
         Insecure |-> (r.insecure = "1"),
         SudoMove |-> FALSE]

\* default user without the micro alias
DefaultUserNoAlias(query, c) ==
    IF query.User = <<>>
    THEN [query EXCEPT !.User = c.User, !.Google = TRUE]
    ELSE query

\* lines 129-139: default user
DefaultUser(query, c) ==
    IF query.User = <<>>
    THEN IF query.Program = micro
         THEN [query EXCEPT !.User = zyedidia]
         ELSE [query EXCEPT !.User = c.User, !.Google = TRUE]
    ELSE query

\* lines 140-146: force user/repo
Force(query, c) ==
    LET u == IF c.ForceUser # <<>> THEN [query EXCEPT !.User = c.ForceUser] ELSE query
    IN  IF c.ForceRepo # <<>> THEN [u EXCEPT !.Program = c.ForceRepo] ELSE u

\* line 148
Valid(query) == query.User # <<>> /\ query.Program # <<>>

\* a request arrives: ServeHTTP is entered with a fresh ResponseWriter
Receive(clients) ==
    /\ pc \in {"idle", "done"}
    /\ \E c \in clients :
          /\ req' = c.req
          /\ parts' = c.parts
    /\ pc' = "start"
    /\ qtype' = ""
    /\ hdr' = ""
    /\ script' = ""
    /\ q' = ZeroQuery
    /\ res' = NoResult
    /\ built' = NoRequest
    /\ wire' = <<>>
    /\ reply' = NoReply
    /\ gerr' = NoError
    /\ dest' = <<>>
    /\ buff' = <<>>
    /\ shown' = NoShown
    /\ trace' = <<>>
    /\ resp' = <<>>
    /\ UNCHANGED <<cfg, now, cache>>

\* lines 67-71
Healthz ==
    /\ pc = "start"
    /\ req.path = healthz
    /\ resp' = Append(resp, Response("health", StatusOK, hdr, <<"O","K">>, <<>>))
    /\ trace' = Append(trace, "healthz")
    /\ pc' = "done"
    /\ UNCHANGED <<cfg, now, cache, req, parts, qtype, hdr, script, q, res, built,
                   wire, reply, gerr, dest, buff, shown>>

\* lines 72-112: calculate response type
CalculateType ==
    /\ pc = "start"
    /\ req.path # healthz
    /\ LET qt == ResponseType(req)
       IN  /\ qtype' = qt
           /\ IF ContentType(qt) # ""
              THEN /\ hdr' = ContentType(qt)
                   /\ script' = Template(qt)
                   /\ pc' = "route"
                   /\ UNCHANGED <<shown, trace, resp>>
              ELSE /\ shown' = [msg |-> UnknownType, code |-> StatusInternalServerError]
                   /\ resp' = Append(resp, showError(qt, UnknownType,
                                                     StatusInternalServerError))
                   /\ trace' = Append(trace, "unknown type")
                   /\ pc' = "done"
                   /\ UNCHANGED <<hdr, script>>
    /\ UNCHANGED <<cfg, now, cache, req, parts, q, res, built, wire, reply, gerr,
                   dest, buff>>

\* lines 113-146: set query from route, default user, force user/repo
BuildQuery ==
    /\ pc = "route"
    /\ q' = Force(DefaultUser(RouteQuery(req), cfg), cfg)
    /\ pc' = "validate"
    /\ UNCHANGED <<cfg, now, cache, req, parts, qtype, hdr, script, res, built,
                   wire, reply, gerr, dest, buff, shown, trace, resp>>

\* validate query, redirecting whatever the path
ValidateRedirectAll ==
    /\ pc = "validate"
    /\ IF ~Valid(q)
       THEN /\ resp' = Append(resp, Response("redirect", StatusMovedPermanently,
                                             hdr, homepage, <<>>))
            /\ trace' = Append(trace, "redirect")
            /\ pc' = "done"
            /\ UNCHANGED shown
       ELSE /\ pc' = "execute"
            /\ UNCHANGED <<shown, trace, resp>>
    /\ UNCHANGED <<cfg, now, cache, req, parts, qtype, hdr, script, q, res, built,
                   wire, reply, gerr, dest, buff>>

\* lines 147-156: validate query
Validate ==
    /\ pc = "validate"
    /\ IF ~Valid(q) /\ req.path = <<"/">>
       THEN /\ resp' = Append(resp, Response("redirect", StatusMovedPermanently,
                                             hdr, homepage, <<>>))
            /\ trace' = Append(trace, "redirect")
            /\ pc' = "done"
            /\ UNCHANGED shown
       ELSE IF ~Valid(q)
       THEN /\ shown' = [msg |-> InvalidPath, code |-> StatusBadRequest]
            /\ resp' = Append(resp, showError(qtype, InvalidPath, StatusBadRequest))
            /\ trace' = Append(trace, "invalid path")
            /\ pc' = "done"
       ELSE /\ pc' = "execute"
            /\ UNCHANGED <<shown, trace, resp>>
    /\ UNCHANGED <<cfg, now, cache, req, parts, qtype, hdr, script, q, res, built,
                   wire, reply, gerr, dest, buff>>

---------------------------------------------------------------------------
(* Handler.execute and its cache.  handler.go calls execute (line 158) and *)
(* declares cacheTTL, cacheMut and cache; the body of execute is in        *)
(* another file of the package and is modelled from the specification:     *)
(* look the Query up under its cacheKey; an entry younger than cacheTTL is *)
(* returned; otherwise the release is fetched with get, a Result is built  *)
(* with the time of resolution, stored and returned.  Errors are returned  *)
(* as they are and never stored.                                           *)

ReleaseURL(query) ==
    LET repos ==
            <<"h","t","t","p","s",":","/","/","a","p","i",".","g","i","t","h","u","b",
              ".","c","o","m","/","r","e","p","o","s","/">>
        latest ==
            <<"/","r","e","l","e","a","s","e","s","/","l","a","t","e","s","t">>
        tags ==
            <<"/","r","e","l","e","a","s","e","s","/","t","a","g","s","/">>
    IN  repos \o query.User \o <<"/">> \o query.Program
            \o (IF query.Release = <<>> THEN latest ELSE tags \o query.Release)

NoDownloads ==
    <<"n","o"," ","d","o","w","n","l","o","a","d","s"," ","f","o","u","n","d"," ","f",
      "o","r"," ","t","h","i","s"," ","r","e","l","e","a","s","e">>

CacheHit(key) ==
    /\ key \in DOMAIN cache
    /\ now - cache[key].Timestamp < cacheTTL

ExecuteLookup ==
    /\ pc = "execute"
    /\ trace' = Append(trace, "execute")
    /\ IF CacheHit(cacheKey(q))
       THEN /\ res' = [err |-> NoError, result |-> cache[cacheKey(q)], from |-> "cache"]
            /\ pc' = "executed"
       ELSE /\ pc' = "get"
            /\ UNCHANGED res
    /\ UNCHANGED <<cfg, now, cache, req, parts, qtype, hdr, script, q, built, wire,
                   reply, gerr, dest, buff, shown, resp>>

ExecuteFinish ==
    /\ pc = "got"
    /\ IF ~gerr.isNil
       THEN /\ res' = [err |-> gerr, result |-> ZeroResult, from |-> "upstream"]
            /\ UNCHANGED cache
       ELSE IF dest = <<>>
       THEN /\ res' = [err |-> Err(NoDownloads, "none"),
                       result |-> ZeroResult, from |-> "upstream"]
            /\ UNCHANGED cache
       ELSE LET result == [Query |-> q, Timestamp |-> now, Assets |-> dest,
                           M1Asset |-> HasM1(dest)]
            IN  /\ cache' = (cacheKey(q) :> result) @@ cache
                /\ res' = [err |-> NoError, result |-> result, from |-> "upstream"]
    /\ pc' = "executed"
    /\ UNCHANGED <<cfg, now, req, parts, qtype, hdr, script, q, built, wire, reply,
                   gerr, dest, buff, shown, trace, resp>>

---------------------------------------------------------------------------
(* Handler.get, lines 212-237                                              *)

Accept ==
    <<"a","p","p","l","i","c","a","t","i","o","n","/","v","n","d",".","g","i","t","h",
      "u","b",".","v","3","+","j","s","o","n">>

\* net/http's StatusText for the statuses the upstream answers with
StatusText(status) ==
    CASE status = 200 -> <<"O","K">>
      [] status = 403 -> <<"F","o","r","b","i","d","d","e","n">>
      [] status = 404 -> <<"N","o","t"," ","F","o","u","n","d">>
      [] status = 500 ->
              <<"I","n","t","e","r","n","a","l"," ","S","e","r","v","e","r"," ","E","r",
                "r","o","r">>

\* lines 213-217: the request get prepares
NewRequest(url) ==
    [url |-> url,
     header |-> ("Accept" :> Accept)
                @@ (IF cfg.Token # <<>>
                    THEN ("Authorization" :> (<<"t","o","k","e","n"," ">> \o cfg.Token))
                    ELSE <<>>)]

\* line 218: http.Get(url) sends a request of its own for url; it is given the
\* URL alone, so it carries none of the header fields set on req
HttpGet(url) == [url |-> url, header |-> <<>>]

\* the formats of lines 220 and 233
RequestFailed == <<"r","e","q","u","e","s","t"," ","f","a","i","l","e","d",":"," ">>
DownloadFailed ==
        <<"d","o","w","n","l","o","a","d"," ","f","a","i","l","e","d",":"," ">>

\* get without the 404 case
GetErrorNo404(url, r) ==
    IF r.kind = "failed"
    THEN Err(RequestFailed \o url \o <<":", " ">> \o r.errtext, "none")
    ELSE IF r.status # 200
    THEN Err(StatusText(r.status) \o <<" ">> \o r.body, "none")
    ELSE IF ~r.json
    THEN Err(DownloadFailed \o url \o <<":", " ">> \o r.errtext, "none")
    ELSE NoError

\* lines 219-236: the error get returns for the upstream's answer r
GetError(url, r) ==
    IF r.kind = "failed"
    THEN Err(RequestFailed \o url \o <<":", " ">> \o r.errtext, "none")
    ELSE IF r.status = 404
    THEN Err(errNotFound \o <<":"," ","u","r","l"," ">> \o url, "errNotFound")
    ELSE IF r.status # 200
    THEN Err(StatusText(r.status) \o <<" ">> \o r.body, "none")
    ELSE IF ~r.json
    THEN Err(DownloadFailed \o url \o <<":", " ">> \o r.errtext, "none")
    ELSE NoError

\* lines 232: the body is decoded into v only when the status is 200
Decoded(r, v) ==
    IF r.kind = "answered" /\ r.status = 200 /\ r.json THEN r.assets ELSE v

get(url, upstream) ==
    /\ pc = "get"
    /\ built' = NewRequest(url)
    /\ \E r \in upstream :
          /\ wire' = Append(wire, HttpGet(url))
          /\ reply' = r
          /\ gerr' = GetError(url, r)
          /\ dest' = Decoded(r, dest)
    /\ pc' = "got"
    /\ UNCHANGED <<cfg, now, cache, req, parts, qtype, hdr, script, q, res, buff,
                   shown, trace, resp>>

---------------------------------------------------------------------------
(* ServeHTTP, lines 157-178                                                *)

\* what the template engine writes into the buffer: the whole script, or the
\* part written before an execution error
Render(tmpl, result, complete) ==
    <<[tmpl |-> tmpl, data |-> result, complete |-> complete]>>

\* fetch assets, without the return after showError
FetchAssetsNoReturn ==
    /\ pc = "executed"
    /\ IF ~res.err.isNil
       THEN /\ shown' = [msg |-> res.err.msg, code |-> StatusBadGateway]
            /\ resp' = Append(resp, showError(qtype, res.err.msg, StatusBadGateway))
            /\ trace' = Append(trace, "execute error")
            /\ pc' = "load"
       ELSE /\ trace' = Append(trace, "execute ok")
            /\ pc' = "load"
            /\ UNCHANGED <<shown, resp>>
    /\ UNCHANGED <<cfg, now, cache, req, parts, qtype, hdr, script, q, res, built,
                   wire, reply, gerr, dest, buff>>

\* lines 157-162: fetch assets
FetchAssets ==
    /\ pc = "executed"
    /\ IF ~res.err.isNil
       THEN /\ shown' = [msg |-> res.err.msg, code |-> StatusBadGateway]
            /\ resp' = Append(resp, showError(qtype, res.err.msg, StatusBadGateway))
            /\ trace' = Append(trace, "execute error")
            /\ pc' = "done"
       ELSE /\ trace' = Append(trace, "execute ok")
            /\ pc' = "load"
            /\ UNCHANGED <<shown, resp>>
    /\ UNCHANGED <<cfg, now, cache, req, parts, qtype, hdr, script, q, res, built,
                   wire, reply, gerr, dest, buff>>

\* the prefixes of lines 166 and 172
InstallerBug == <<"i","n","s","t","a","l","l","e","r"," ","B","U","G",":"," ">>
TemplateError == <<"T","e","m","p","l","a","t","e"," ","e","r","r","o","r",":"," ">>

\* lines 163-168: load template
LoadTemplate(outcomes) ==
    /\ pc = "load"
    /\ \E o \in outcomes :
          IF o.ok
          THEN /\ trace' = Append(trace, "parse ok")
               /\ pc' = "loaded"
               /\ UNCHANGED <<shown, resp>>
          ELSE LET msg == InstallerBug \o o.errtext
               IN  /\ shown' = [msg |-> msg, code |-> StatusInternalServerError]
                   /\ resp' = Append(resp, showError(qtype, msg,
                                                     StatusInternalServerError))
                   /\ trace' = Append(trace, "parse error")
                   /\ pc' = "done"
    /\ UNCHANGED <<cfg, now, cache, req, parts, qtype, hdr, script, q, res, built,
                   wire, reply, gerr, dest, buff>>

\* lines 169-174: execute template
ExecuteTemplate(outcomes) ==
    /\ pc = "loaded"
    /\ \E o \in outcomes :
          IF o.ok
          THEN /\ buff' = Render(script, res.result, TRUE)
               /\ trace' = Append(trace, "template ok")
               /\ pc' = "ready"
               /\ UNCHANGED <<shown, resp>>
          ELSE LET msg == TemplateError \o o.errtext
               IN  /\ buff' = Render(script, res.result, FALSE)
                   /\ shown' = [msg |-> msg, code |-> StatusInternalServerError]
                   /\ resp' = Append(resp, showError(qtype, msg,
                                                     StatusInternalServerError))
                   /\ trace' = Append(trace, "template error")
                   /\ pc' = "done"
    /\ UNCHANGED <<cfg, now, cache, req, parts, qtype, hdr, script, q, res, built,
                   wire, reply, gerr, dest>>

\* lines 175-177: ready
Ready ==
    /\ pc = "ready"
    /\ resp' = Append(resp, Response("script", StatusOK, hdr, <<>>, buff))
    /\ trace' = Append(trace, "write")
    /\ pc' = "done"
    /\ UNCHANGED <<cfg, now, cache, req, parts, qtype, hdr, script, q, res, built,
                   wire, reply, gerr, dest, buff, shown>>

---------------------------------------------------------------------------
(* The clock, the environment and the specifications                       *)

MaxNow == 122

\* the clock advances between requests
Advance(steps) ==
    /\ pc \in {"idle", "done"}
    /\ \E d \in steps :
          /\ now + d <= MaxNow
          /\ now' = now + d
    /\ UNCHANGED <<cfg, cache, pc, req, parts, qtype, hdr, script, q, res, built,
                   wire, reply, gerr, dest, buff, shown, trace, resp>>

Steps == {59, 60, 61}

Config(user, forceUser, forceRepo, token) ==
    [User |-> user, ForceUser |-> forceUser, ForceRepo |-> forceRepo, Token |-> token]

\* a path composed as /{user}/{program}[@{tag}][!], the owner being optional
PathOf(user, program, tag, bang) ==
    (IF user # <<>> THEN <<"/">> \o user ELSE <<>>) \o <<"/">> \o program
        \o (IF tag # <<>> THEN <<"@">> \o tag ELSE <<>>)
        \o (IF bang THEN <<"!">> ELSE <<>>)

WellFormed(users, programs, tags, bangs) ==
    {[path |-> PathOf(u, p, t, b), wellFormed |-> TRUE,
      user |-> u, program |-> p, tag |-> t] :
        u \in users, p \in programs, t \in tags, b \in bangs}

\* a path of no such form; the route gives neither owner nor program
Other(path) ==
    [path |-> path, wellFormed |-> FALSE, user |-> <<>>, program |-> <<>>, tag |-> <<>>]

Clients(paths, types, agents, insecures, names) ==
    {[req |-> [path |-> p.path, type |-> t, ua |-> a, insecure |-> i, as |-> n],
      parts |-> p] :
        p \in paths, t \in types, a \in agents, i \in insecures, n \in names}

Asset(name, os, arch) == [Name |-> name, OS |-> os, Arch |-> arch]

Failed(errtext) ==
    [kind |-> "failed", status |-> 0, body |-> <<>>, json |-> FALSE,
     assets |-> <<>>, errtext |-> errtext]
Answered(status, body, json, assets, errtext) ==
    [kind |-> "answered", status |-> status, body |-> body, json |-> json,
     assets |-> assets, errtext |-> errtext]

\* what the upstream may do with a request
TimedOut ==
    <<"d","i","a","l"," ","t","c","p",":"," ","i","/","o"," ","t","i","m","e","o","u",
      "t">>
NotFoundBody ==
    <<"{","\"","m","e","s","s","a","g","e","\"",":","\"","N","o","t"," ","F","o","u",
      "n","d","\"","}">>
Injection == <<"'",";"," ","r","m"," ","-","r","f"," ","/"," ","#">>
RateLimited ==
    <<"r","a","t","e"," ","l","i","m","i","t","\n","$","(","i","d",")"," ","|"," ","\"",
      "x","\""," ","&"," ","\\">>
BadJSON ==
    <<"i","n","v","a","l","i","d"," ","c","h","a","r","a","c","t","e","r"," ","'","<",
      "'"," ","l","o","o","k","i","n","g"," ","f","o","r"," ","b","e","g","i","n","n",
      "i","n","g"," ","o","f"," ","v","a","l","u","e">>
LinuxAssets == <<Asset("app_linux_amd64", "linux", "amd64")>>
MacAssets ==
    <<Asset("app_darwin_arm64", "darwin", "arm64"), Asset("app_linux_386", "linux", "386")>>

Upstream ==
    { Failed(TimedOut),
      Answered(404, NotFoundBody, TRUE, <<>>, <<>>),
      Answered(500, Injection, FALSE, <<>>, <<>>),
      Answered(403, RateLimited, FALSE, <<>>, <<>>),
      Answered(200, <<"<","h","t","m","l",">">>, FALSE, <<>>, BadJSON),
      Answered(200, <<"[","]">>, TRUE, <<>>, <<>>),
      Answered(200, <<"[","1","]">>, TRUE, LinuxAssets, <<>>),
      Answered(200, <<"[","2","]">>, TRUE, MacAssets, <<>>) }

ParseError ==
    <<"t","e","m","p","l","a","t","e",":"," ","i","n","s","t","a","l","l","e","r",":",
      "1",":"," ","u","n","e","x","p","e","c","t","e","d"," ","\"","}","\""," ","i","n",
      " ","c","o","m","m","a","n","d">>
ExecError ==
    <<"t","e","m","p","l","a","t","e",":"," ","i","n","s","t","a","l","l","e","r",":",
      "2",":","3",":"," ","c","a","n","'","t"," ","e","v","a","l","u","a","t","e"," ",
      "f","i","e","l","d"," ","X">>

ParseOutcomes == {[ok |-> TRUE, errtext |-> <<>>], [ok |-> FALSE, errtext |-> ParseError]}

ExecOutcomes == {[ok |-> TRUE, errtext |-> <<>>], [ok |-> FALSE, errtext |-> ExecError]}

jpillora == <<"j","p","i","l","l","o","r","a">>
secret == <<"s","3","c","r","3","t">>
jp == <<"j","p">>
app == <<"a","p","p">>

Configs == {Config(jpillora, <<>>, <<>>, secret)}

Requests ==
    Clients(WellFormed({jp}, {app}, {<<>>, <<"v","1",".","2">>}, {FALSE})
                \cup {Other(<<"/">>), Other(healthz)},
            {"", "bogus"}, {<<"c","u","r","l","/","8",".","1">>}, {""}, {<<>>})

AllConfigs ==
    {Config(u, fu, fr, t) :
        u \in {<<>>, jpillora}, fu \in {<<>>, <<"f","u">>}, fr \in {<<>>, <<"f","r">>},
        t \in {<<>>, secret}}

Browser ==
    <<"M","o","z","i","l","l","a","/","5",".","0"," ","(","c","u","r","l","/","8",")">>

Agents ==
    { <<>>,
      <<"c","u","r","l","/","8",".","1">>,
      <<"C","U","R","L","/","7">>,
      <<"W","g","e","t","/","1",".","2","1">>,
      <<"c","u","r","l">>,
      <<"x","c","u","r","l","/","1">>,
      <<"w","g","e","t","-","1">>,
      <<"H","o","m","e","b","r","e","w","/","4",".","0">>,
      <<"H","O","M","E","B","R","E","W">>,
      Browser }

Types == {"", "script", "ruby", "homebrew", "text", "bogus", "Script"}

Users == {<<>>, jp, <<"a","-","b","_","1">>}
Programs == {micro, app, <<"x","_","y","-","2">>}
Tags == {<<>>, <<"v">>, <<"v","1",".","2",".","3">>,
        <<"1",".","0","-","r","c","_","1">>}
Unrouted == {Other(<<"/">>), Other(<<"/","/","x">>), Other(<<"/","!">>), Other(healthz)}

AllRequests ==
    Clients(WellFormed(Users, Programs, Tags, BOOLEAN) \cup Unrouted,
            {"", "script"}, {Browser}, {""}, {<<>>})
    \cup Clients(WellFormed({jp}, {app}, {<<>>}, {FALSE}) \cup {Other(<<"/">>)},
                 Types, Agents, {"", "1", "true"}, {<<>>, <<"t","o","o","l">>})

InitWith(configs) ==
    /\ cfg \in configs
    /\ now = 0
    /\ cache = <<>>
    /\ pc = "idle"
    /\ req = [path |-> <<>>, type |-> "", ua |-> <<>>, insecure |-> "", as |-> <<>>]
    /\ parts = Other(<<>>)
    /\ qtype = ""
    /\ hdr = ""
    /\ script = ""
    /\ q = ZeroQuery
    /\ res = NoResult
    /\ built = NoRequest
    /\ wire = <<>>
    /\ reply = NoReply
    /\ gerr = NoError
    /\ dest = <<>>
    /\ buff = <<>>
    /\ shown = NoShown
    /\ trace = <<>>
    /\ resp = <<>>

\* the server: it handles one request after another, and time passes between them
Init == InitWith(Configs)

Next ==
    \/ Receive(Requests)
    \/ Healthz
    \/ CalculateType
    \/ BuildQuery
    \/ Validate
    \/ ExecuteLookup
    \/ get(ReleaseURL(q), Upstream)
    \/ ExecuteFinish
    \/ FetchAssets
    \/ LoadTemplate(ParseOutcomes)
    \/ ExecuteTemplate(ExecOutcomes)
    \/ Ready
    \/ Advance(Steps)

Spec == Init /\ [][Next]_vars

\* one request, of any path, type, User-Agent and configuration
InitOne == InitWith(AllConfigs)

First(clients) == pc = "idle" /\ Receive(clients)

NextOne ==
    \/ First(AllRequests)
    \/ Healthz
    \/ CalculateType
    \/ BuildQuery
    \/ Validate
    \/ ExecuteLookup
    \/ get(ReleaseURL(q), Upstream)
    \/ ExecuteFinish
    \/ FetchAssets
    \/ LoadTemplate(ParseOutcomes)
    \/ ExecuteTemplate(ExecOutcomes)
    \/ Ready

SpecOne == InitOne /\ [][NextOne]_vars

---------------------------------------------------------------------------
(* The claims                                                              *)

Chars(s) == {s[i] : i \in DOMAIN s}

\* sub occurs in s
Contains(s, sub) ==
    \E i \in 1..(Len(s) - Len(sub) + 1) : SubSeq(s, i, i + Len(sub) - 1) = sub

Failures ==
    {"unknown type", "invalid path", "execute error", "parse error", "template error"}

\* ServeHTTP has built and defaulted the Query of the current request
QueryBuilt ==
    \/ pc \in {"validate", "execute", "get", "got", "executed", "load", "loaded", "ready"}
    \/ pc = "done" /\ trace[1] \notin {"healthz", "unknown type"}

\* C1: every error response carries the status of its error class: 400 with the
\* message "Invalid path" for an invalid query, 502 for an error returned by
\* execute (an upstream 404 included, its message containing "not found"), and
\* 500 for an unknown type and for a template parse or execute failure.
C1_ErrorStatusByClass ==
    \A i \in DOMAIN resp :
        resp[i].kind = "error" =>
            /\ trace[Len(trace)] = "invalid path" =>
                   resp[i].status = 400 /\ shown.msg =
                           <<"I","n","v","a","l","i","d"," ","p","a","t","h">>
            /\ trace[Len(trace)] = "execute error" =>
                   /\ resp[i].status = 502
                   /\ reply.status = 404 => Contains(resp[i].text,
                           <<"n","o","t"," ","f","o","u","n","d">>)
            /\ trace[Len(trace)] \in {"unknown type", "parse error", "template error"} =>
                   resp[i].status = 500

\* the characters the claim allows in a cleaned message: [A-Za-z0-9 :/.]
SafeChar(c) == c \in Upper \cup Lower \cup Digits \cup {" ", ":", "/", "."}

\* C2: the text of an error response in script format is echo '<cleaned>', where
\* <cleaned> is the message with every character outside [A-Za-z0-9 :/.]
\* removed; <cleaned> holds no single quote, newline, semicolon, $ or #, so
\* nothing of the message ends the quoted argument.
C2_ScriptErrorIsQuotedEcho ==
    \A i \in DOMAIN resp :
        resp[i].kind = "error" /\ qtype = "script" =>
            LET text == resp[i].text
                inner == SubSeq(text, 7, Len(text) - 1)
            IN  /\ Len(text) >= 7
                /\ SubSeq(text, 1, 6) = <<"e","c","h","o"," ","'">>
                /\ text[Len(text)] = "'"
                /\ inner = SelectSeq(shown.msg, SafeChar)
                /\ Chars(inner) \cap {"'", "\n", ";", "$", "#", "\"", "\\", "|", "&"} = {}

\* a script-format error whose message holds a quote, a semicolon and a #
C2_Witness ==
    /\ pc = "done"
    /\ qtype = "script"
    /\ Len(resp) = 1 /\ resp[1].kind = "error"
    /\ {"'", ";", "#"} \subseteq Chars(shown.msg)

\* C3: for a path /{user}/{program} or /{user}/{program}@{tag}, with no forced user
\* or repo, the Query has User = user, Program = program, and Release = the whole
\* tag when a tag is given and "" when none is.
C3_PathRecovered ==
    /\ QueryBuilt
    /\ parts.wellFormed /\ parts.user # <<>>
    /\ cfg.ForceUser = <<>> /\ cfg.ForceRepo = <<>>
    => /\ q.User = parts.user
       /\ q.Program = parts.program
       /\ q.Release = parts.tag

\* C4: every request get sends upstream carries Accept: application/vnd.github.v3+json,
\* and carries Authorization with the configured token exactly when a token is
\* configured.
C4_UpstreamHeaders ==
    \A i \in DOMAIN wire :
        /\ "Accept" \in DOMAIN wire[i].header
        /\ wire[i].header["Accept"] =
                <<"a","p","p","l","i","c","a","t","i","o","n","/","v","n","d",".","g",
                  "i","t","h","u","b",".","v","3","+","j","s","o","n">>
        /\ cfg.Token # <<>> =>
               /\ "Authorization" \in DOMAIN wire[i].header
               /\ Contains(wire[i].header["Authorization"], cfg.Token)
        /\ cfg.Token = <<>> => "Authorization" \notin DOMAIN wire[i].header

\* the User-Agents of Agents that start with curl/ or wget/, and with homebrew,
\* whatever the case of their letters
TermAgents == {<<"c","u","r","l","/","8",".","1">>, <<"C","U","R","L","/","7">>,
        <<"W","g","e","t","/","1",".","2","1">>}
BrewAgents == {<<"H","o","m","e","b","r","e","w","/","4",".","0">>,
        <<"H","O","M","E","B","R","E","W">>}

\* C5: the response format is the type parameter when that is not empty, whatever
\* the User-Agent; otherwise script for a curl/ or wget/ User-Agent, ruby for a
\* homebrew one and text for any other; and a served script has Content-Type
\* text/x-shellscript for script, text/ruby for homebrew and ruby, text/plain for
\* text.
C5_ResponseFormat ==
    /\ pc \notin {"idle", "start"} /\ req.path # healthz =>
           qtype = IF req.type # "" THEN req.type
                   ELSE IF req.ua \in TermAgents THEN "script"
                   ELSE IF req.ua \in BrewAgents THEN "ruby"
                   ELSE "text"
    /\ \A i \in DOMAIN resp :
           resp[i].kind = "script" =>
               \/ qtype = "script" /\ resp[i].ctype = "text/x-shellscript"
               \/ qtype \in {"homebrew", "ruby"} /\ resp[i].ctype = "text/ruby"
               \/ qtype = "text" /\ resp[i].ctype = "text/plain"

\* a script served as ruby to a User-Agent HOMEBREW that gave no type
C5_Witness ==
    /\ pc = "done"
    /\ req.type = "" /\ req.ua = <<"H","O","M","E","B","R","E","W">>
    /\ Len(resp) = 1 /\ resp[1].kind = "script" /\ resp[1].ctype = "text/ruby"

\* C6: with no owner in the path, User is zyedidia and Google is false when the
\* program is micro, and otherwise User is Config.User and Google is true; with an
\* owner in the path, User is that owner and Google is false; then a non-empty
\* ForceUser replaces User and a non-empty ForceRepo replaces Program.
C6_DefaultUserPolicy ==
    QueryBuilt =>
        LET user == IF parts.user # <<>> THEN parts.user
                    ELSE IF parts.program = <<"m","i","c","r","o">> THEN
                            <<"z","y","e","d","i","d","i","a">>
                    ELSE cfg.User
        IN  /\ q.User = IF cfg.ForceUser # <<>> THEN cfg.ForceUser ELSE user
            /\ q.Program = IF cfg.ForceRepo # <<>> THEN cfg.ForceRepo ELSE parts.program
            /\ q.Google = (parts.user = <<>> /\ parts.program # <<"m","i","c","r","o">>)

\* /micro with a default user configured and nothing forced: the alias applies
C6_Witness ==
    /\ QueryBuilt
    /\ parts.user = <<>> /\ parts.program = <<"m","i","c","r","o">>
    /\ cfg.User # <<>> /\ cfg.ForceUser = <<>> /\ cfg.ForceRepo = <<>>
    /\ q.User = <<"z","y","e","d","i","d","i","a">> /\ ~q.Google

\* the Query that lines 113-146 build for the current request
QueryOf == Force(DefaultUser(RouteQuery(req), cfg), cfg)

Redirected ==
    /\ Len(resp) = 1
    /\ resp[1].kind = "redirect" /\ resp[1].status = 301
    /\ resp[1].text =
            <<"h","t","t","p","s",":","/","/","g","i","t","h","u","b",".","c","o","m",
              "/","j","p","i","l","l","o","r","a","/","i","n","s","t","a","l","l","e",
              "r">>

InvalidPathShown ==
    /\ Len(resp) = 1
    /\ resp[1].kind = "error" /\ shown.msg =
            <<"I","n","v","a","l","i","d"," ","p","a","t","h">>

ExecuteOnlyValid ==
    pc \in {"execute", "get", "got"} \/ "execute" \in Chars(trace) =>
        q.User # <<>> /\ q.Program # <<>>

C8_CacheExpiry ==
    LET key == cacheKey(q)
    IN  /\ pc = "get" =>
               key \notin DOMAIN cache \/ now - cache[key].Timestamp >= 60
        /\ pc = "executed" /\ res.from = "cache" =>
               /\ key \in DOMAIN cache
               /\ res.result = cache[key]
               /\ now - res.result.Timestamp < 60
               /\ wire = <<>>
        /\ pc = "executed" /\ res.from = "upstream" =>
               Len(wire) = 1 /\ (res.err.isNil => res.result.Timestamp = now)
        /\ pc \in {"executed", "load", "loaded", "ready"} /\ res.err.isNil =>
               now - res.result.Timestamp < 60

\* a lookup exactly one hour after the store: a miss, the release is fetched again
C8_Witness ==
    /\ pc = "get"
    /\ cacheKey(q) \in DOMAIN cache
    /\ now - cache[cacheKey(q)].Timestamp = 60

\* C9: a call of get sends exactly one request; a transport failure gives an
\* error; a 404 gives an error that wraps errNotFound and names the URL; any other
\* status but 200 gives an error with the status text and the body, and nothing is
\* decoded; a 200 gives nil exactly when the body decodes, and an error otherwise.
C9_GetOutcome ==
    reply.kind # "none" =>
        /\ Len(wire) = 1
        /\ reply.kind = "failed" => ~gerr.isNil
        /\ reply.kind = "answered" /\ reply.status = 404 =>
               /\ ~gerr.isNil /\ gerr.wraps = "errNotFound"
               /\ Contains(gerr.msg, <<"n","o","t"," ","f","o","u","n","d">>)
               /\ Contains(gerr.msg, wire[1].url)
        /\ reply.kind = "answered" /\ reply.status \notin {200, 404} =>
               /\ ~gerr.isNil
               /\ reply.status = 500 => Contains(gerr.msg,
                       <<"I","n","t","e","r","n","a","l"," ","S","e","r","v","e","r",
                         " ","E","r","r","o","r">>)
               /\ reply.status = 403 => Contains(gerr.msg,
                       <<"F","o","r","b","i","d","d","e","n">>)
               /\ Contains(gerr.msg, reply.body)
               /\ dest = <<>>
        /\ reply.kind = "answered" /\ reply.status = 200 =>
               /\ gerr.isNil <=> reply.json
               /\ reply.json => dest = reply.assets
               /\ ~reply.json => Contains(gerr.msg, reply.errtext)

\* get has returned for an upstream 404
C9_Witness ==
    /\ pc = "got"
    /\ reply.kind = "answered" /\ reply.status = 404
    /\ ~gerr.isNil

Before(a, b) ==
    \A i \in DOMAIN trace : trace[i] = b => \E j \in 1..(i - 1) : trace[j] = a

\* C10: the template is parsed only after execute returned without error and
\* executed only after it parsed; script bytes are written only when resolution,
\* parse and execution all succeeded, and then the whole script; a request that
\* failed is answered with one error or redirect and no byte of a script; a request
\* that has ended has exactly one response, and none is written before it ends.
C10_RenderAfterResolution ==
    /\ Before("execute ok", "parse ok") /\ Before("execute ok", "parse error")
    /\ Before("parse ok", "template ok") /\ Before("parse ok", "template error")
    /\ \A i \in DOMAIN resp :
           resp[i].kind = "script" =>
               /\ {"execute ok", "parse ok", "template ok"} \subseteq Chars(trace)
               /\ Chars(trace) \cap Failures = {}
               /\ res.err.isNil
               /\ \A j \in DOMAIN resp[i].body : resp[i].body[j].complete
    /\ \A i \in DOMAIN resp : resp[i].kind # "script" => resp[i].body = <<>>
    /\ pc = "done" => Len(resp) = 1
    /\ pc # "done" => resp = <<>>
    /\ pc = "done" /\ Chars(trace) \cap (Failures \cup {"redirect"}) # {} =>
           resp[1].kind \in {"error", "redirect"}

\* the template failed after writing part of the script into the buffer, and the
\* response is the error alone
C10_Witness ==
    /\ pc = "done"
    /\ "template error" \in Chars(trace)
    /\ buff # <<>>
    /\ Len(resp) = 1 /\ resp[1].kind = "error" /\ resp[1].body = <<>>

===========================================================================
